---- MODULE Spec2Model ----
(***************************************************************************)
(* The UPI transaction library (upi-transaction-library.js): three code    *)
(* tables, the two lookups getCodeInfo and getDisputeInfo, the two         *)
(* simulation helpers and handleEdgeCase, driven by one synchronous        *)
(* caller.                                                                 *)
(*                                                                         *)
(* JavaScript strings are TLA+ strings; toUpperCase and toLowerCase act on  *)
(* them character by character.  The en dash of nine mandate descriptions  *)
(* (source lines 120-151) is written "-" here.                             *)
(***************************************************************************)
EXTENDS Integers, Sequences, FiniteSets, TLC

\* ------------------------------------------------------------------ bounds

\* Longest code string over Chars that a caller passes.
MaxLen == 3
\* Math.random() returns r / RandDen for r in 0 .. RandDen - 1.
RandDen == 85
\* Write attempts a caller makes on the exported tables.
MaxWrites == 2

\* ------------------------------------------------------------------- enums

UPIStatus ==
  [SUCCESS |-> "Processed", PENDING |-> "Pending", REJECTED |-> "Rejected"]

UPITransactionType ==
  [PAY |-> "Pay Request (Push)",
   COLLECT |-> "Collect Request (Pull)",
   INTENT |-> "UPI Intent-Based Payment",
   AUTOPAY |-> "UPI Autopay",
   LITE |-> "UPI Lite",
   ASBA |-> "UPI for ASBA"]

\* Object.values(obj) of an enum-like object, as a set.
ObjectValues(obj) == {obj[k] : k \in DOMAIN obj}

\* ------------------------------------------------------------------ tables
\* The object literals handed to Object.freeze.  Each entry is the array
\* [description, type, status, handling] (disputes: [description,
\* disputeType, tat, flag]).  The ...Keys sequences are Object.keys of the
\* table: integer-like keys ascending, then the others in source order.

UPIErrorCodesLiteral ==
     "00" :> <<"Approved or completed successfully", "Success", UPIStatus.SUCCESS, "No action needed.">>
  @@ "000" :> <<"Success (alternate)", "Success", UPIStatus.SUCCESS, "Same as 00.">>
  @@ "01" :> <<"Unable to process reversal / Account closed", "Business", UPIStatus.REJECTED, "Reinitiate with same CRN; e.g., closed account in mandate presentation.">>
  @@ "02" :> <<"No such account", "Business", UPIStatus.REJECTED, "Invalid beneficiary; recheck details.">>
  @@ "03" :> <<"Merchant VPA not found", "Technical", UPIStatus.REJECTED, "Invalid merchant; reinitiate.">>
  @@ "04" :> <<"Technical decline / Balance insufficient", "Business/Technical", UPIStatus.REJECTED, "Insufficient funds; top up account.">>
  @@ "05" :> <<"Technical failure (unauthorized request) / Not arranged for", "Business/Technical", UPIStatus.REJECTED, "Unauthorized or arrangement missing; reinitiate.">>
  @@ "091" :> <<"Timeout", "Technical", UPIStatus.PENDING, "Wait; do not reinitiate.">>
  @@ "10" :> <<"PIN block error", "Technical", UPIStatus.REJECTED, "Invalid PIN; retry.">>
  @@ "100" :> <<"PI (basic) attributes of demographic data did not match", "Business", UPIStatus.REJECTED, "Aadhaar mismatch; verify details.">>
  @@ "12" :> <<"Invalid transaction", "Technical", UPIStatus.REJECTED, "Format/issue; reinitiate.">>
  @@ "125" :> <<"Transaction limit crossed", "Business", UPIStatus.REJECTED, "Exceeds daily limit; wait or split.">>
  @@ "13" :> <<"Invalid amount field", "Technical", UPIStatus.REJECTED, "Amount error; correct and retry.">>
  @@ "14" :> <<"Invalid card number", "Technical", UPIStatus.REJECTED, "Wrong card; re-enter.">>
  @@ "15" :> <<"Issuer not live on UPI", "Technical", UPIStatus.REJECTED, "Bank not UPI-enabled; switch bank.">>
  @@ "17" :> <<"Customer cancellation", "Business", UPIStatus.REJECTED, "User canceled; reinitiate if needed.">>
  @@ "20" :> <<"Invalid response code", "Technical", UPIStatus.REJECTED, "System error; retry.">>
  @@ "200" :> <<"PA (address) attributes of demographic data did not match", "Business", UPIStatus.REJECTED, "Address mismatch; update.">>
  @@ "21" :> <<"No action taken", "Technical", UPIStatus.REJECTED, "System decline; retry.">>
  @@ "22" :> <<"Suspected malfunction", "Technical", UPIStatus.REJECTED, "Device/issue; try another app.">>
  @@ "30" :> <<"Invalid message format", "Technical", UPIStatus.REJECTED, "XML/format error; system fix.">>
  @@ "300" :> <<"Biometric data did not match", "Business", UPIStatus.REJECTED, "Fingerprint/iris fail; retry.">>
  @@ "303" :> <<"Duplicate transaction ID", "Technical", UPIStatus.REJECTED, "Already processed; check status.">>
  @@ "310" :> <<"Duplicate fingers used", "Technical", UPIStatus.REJECTED, "Biometric duplicate; use different.">>
  @@ "311" :> <<"Duplicate irises used", "Technical", UPIStatus.REJECTED, "Same as above.">>
  @@ "312" :> <<"FMR and FIR cannot be used in same transaction", "Technical", UPIStatus.REJECTED, "Biometric rule violation.">>
  @@ "313" :> <<"Single FIR record contains more than one finger", "Technical", UPIStatus.REJECTED, "Format error in biometrics.">>
  @@ "314" :> <<"Number of FMR/FIR should not exceed 10", "Technical", UPIStatus.REJECTED, "Too many biometrics.">>
  @@ "315" :> <<"Number of IIR should not exceed 2", "Technical", UPIStatus.REJECTED, "Iris limit exceeded.">>
  @@ "34" :> <<"Suspected fraud", "Business", UPIStatus.REJECTED, "Risk score high; contact bank.">>
  @@ "36" :> <<"Restricted card", "Business", UPIStatus.REJECTED, "Card blocked; use another.">>
  @@ "40" :> <<"Invalid debit account", "Technical", UPIStatus.REJECTED, "Wrong account; select correct.">>
  @@ "400" :> <<"OTP validation failed", "Business", UPIStatus.REJECTED, "Wrong OTP; regenerate.">>
  @@ "401" :> <<"Unauthorized request", "Technical", UPIStatus.REJECTED, "Auth fail; login again.">>
  @@ "404" :> <<"Record not available", "Technical", UPIStatus.REJECTED, "No data; check inputs.">>
  @@ "43" :> <<"Lost or stolen account/card", "Business", UPIStatus.REJECTED, "Security block; report to bank.">>
  @@ "444" :> <<"Checksum error", "Technical", UPIStatus.REJECTED, "Data integrity issue; retry.">>
  @@ "500" :> <<"Internal server error / Invalid encryption", "Technical", UPIStatus.REJECTED, "Server down; wait and retry.">>
  @@ "510" :> <<"Invalid XML format", "Technical", UPIStatus.REJECTED, "Message format error.">>
  @@ "AM" :> <<"MPIN not set by customer", "Business", UPIStatus.REJECTED, "Set PIN first.">>
  @@ "B1" :> <<"Registered mobile number changed/removed", "Business", UPIStatus.REJECTED, "Update mobile with bank.">>
  @@ "B3" :> <<"Transaction not permitted to account (e.g., minor, NRE)", "Business", UPIStatus.REJECTED, "Account restriction.">>
  @@ "CA" :> <<"Compliance error code for acquirer", "Business", UPIStatus.REJECTED, "Regulatory issue at merchant.">>
  @@ "CI" :> <<"Compliance error code for issuer", "Business", UPIStatus.REJECTED, "Regulatory issue at bank.">>
  @@ "DF" :> <<"Duplicate RRN found (beneficiary)", "Technical", UPIStatus.REJECTED, "Duplicate txn; check history.">>
  @@ "DT" :> <<"Duplicate RRN found (remitter)", "Technical", UPIStatus.REJECTED, "Same as above.">>
  @@ "K1" :> <<"Suspected fraud / Declined based on risk score (remitter)", "Business", UPIStatus.REJECTED, "Fraud detection.">>
  @@ "NO" :> <<"No original request found during debit/credit", "Technical", UPIStatus.REJECTED, "Missing prior txn.">>
  @@ "PS" :> <<"Maximum balance exceeded (beneficiary bank)", "Business", UPIStatus.REJECTED, "Account full; withdraw first.">>
  @@ "U13" :> <<"ACK not received or invalid", "Technical", UPIStatus.REJECTED, "Comms error (older code; now split).">>
  @@ "U16" :> <<"Exceeded NPCI/bank limit", "Business", UPIStatus.REJECTED, "Limit hit; wait 24 hours.">>
  @@ "U3" :> <<"Biometric data did not match (alternate)", "Business", UPIStatus.REJECTED, "Auth fail.">>
  @@ "U30" :> <<"Generic failure (e.g., payer decline)", "Business", UPIStatus.REJECTED, "User declined collect.">>
  @@ "U4" :> <<"Invalid encryption", "Technical", UPIStatus.REJECTED, "Security issue.">>
  @@ "U5" :> <<"Invalid XML format (alternate)", "Technical", UPIStatus.REJECTED, "Format error.">>
  @@ "X6" :> <<"Invalid merchant (acquirer)", "Business", UPIStatus.REJECTED, "Merchant invalid.">>
  @@ "X7" :> <<"Merchant not reachable (acquirer)", "Technical", UPIStatus.REJECTED, "Connectivity issue.">>
  @@ "XB" :> <<"Invalid transaction (remitter, no appropriate code)", "Technical", UPIStatus.REJECTED, "Catch-all remitter error.">>
  @@ "XC" :> <<"Invalid transaction (beneficiary, no appropriate code)", "Technical", UPIStatus.REJECTED, "Catch-all beneficiary error.">>
  @@ "XD" :> <<"Invalid amount (remitter)", "Technical", UPIStatus.REJECTED, "Amount error sender side.">>
  @@ "XE" :> <<"Invalid amount (beneficiary)", "Technical", UPIStatus.REJECTED, "Amount error receiver side.">>
  @@ "XF" :> <<"Format error (remitter)", "Technical", UPIStatus.REJECTED, "Invalid format sender.">>
  @@ "XG" :> <<"Format error (beneficiary)", "Technical", UPIStatus.REJECTED, "Invalid format receiver.">>
  @@ "XH" :> <<"Account does not exist (remitter)", "Business", UPIStatus.REJECTED, "Sender account invalid.">>
  @@ "XI" :> <<"Account does not exist (beneficiary)", "Business", UPIStatus.REJECTED, "Receiver account invalid.">>
  @@ "XJ" :> <<"Requested function not supported (remitter)", "Technical", UPIStatus.REJECTED, "Feature unavailable sender.">>
  @@ "XK" :> <<"Requested function not supported (beneficiary)", "Technical", UPIStatus.REJECTED, "Feature unavailable receiver.">>
  @@ "XL" :> <<"Expired card (remitter)", "Business", UPIStatus.REJECTED, "Card expired.">>
  @@ "XM" :> <<"Expired card (beneficiary)", "Business", UPIStatus.REJECTED, "Same.">>
  @@ "XN" :> <<"No card record (remitter)", "Technical", UPIStatus.REJECTED, "No card data.">>
  @@ "XO" :> <<"No card record (beneficiary)", "Technical", UPIStatus.REJECTED, "Same.">>
  @@ "XP" :> <<"Transaction not permitted to cardholder (remitter)", "Business", UPIStatus.REJECTED, "Permission denied.">>
  @@ "XQ" :> <<"Transaction not permitted to cardholder (beneficiary)", "Business", UPIStatus.REJECTED, "Same.">>
  @@ "XR" :> <<"Restricted card (remitter)", "Business", UPIStatus.REJECTED, "Restricted.">>
  @@ "XS" :> <<"Restricted card (beneficiary)", "Business", UPIStatus.REJECTED, "Same.">>
  @@ "XT" :> <<"Cut-off in process (remitter)", "Technical", UPIStatus.REJECTED, "Maintenance window.">>
  @@ "XU" :> <<"Cut-off in process (beneficiary)", "Technical", UPIStatus.REJECTED, "Same.">>
  @@ "XV" :> <<"Compliance violation (remitter)", "Business", UPIStatus.REJECTED, "Regulatory block.">>
  @@ "XW" :> <<"Compliance violation (beneficiary)", "Business", UPIStatus.REJECTED, "Same.">>
  @@ "XY" :> <<"Remitter CBS offline", "Technical", UPIStatus.REJECTED, "Sender bank down.">>
  @@ "Y1" :> <<"Beneficiary CBS offline", "Technical", UPIStatus.REJECTED, "Receiver bank down.">>
  @@ "YA" :> <<"Lost or stolen card (remitter)", "Business", UPIStatus.REJECTED, "Security.">>
  @@ "YB" :> <<"Lost or stolen card (beneficiary)", "Business", UPIStatus.REJECTED, "Same.">>
  @@ "YC" :> <<"Do not honour (remitter)", "Business", UPIStatus.REJECTED, "Bank decline.">>
  @@ "YD" :> <<"Do not honour (beneficiary)", "Business", UPIStatus.REJECTED, "Same.">>

UPIErrorCodesKeys ==
  <<"10", "12", "13", "14", "15", "17", "20", "21", "22", "30", "34", "36",
    "40", "43", "100", "125", "200", "300", "303", "310", "311", "312",
    "313", "314", "315", "400", "401", "404", "444", "500", "510", "00",
    "000", "01", "02", "03", "04", "05", "091", "AM", "B1", "B3", "CA",
    "CI", "DF", "DT", "K1", "NO", "PS", "U13", "U16", "U3", "U30", "U4",
    "U5", "X6", "X7", "XB", "XC", "XD", "XE", "XF", "XG", "XH", "XI", "XJ",
    "XK", "XL", "XM", "XN", "XO", "XP", "XQ", "XR", "XS", "XT", "XU", "XV",
    "XW", "XY", "Y1", "YA", "YB", "YC", "YD">>


MandateErrorCodesLiteral ==
     "AP01" :> <<"Account blocked", "Business", UPIStatus.REJECTED, "Account is blocked; contact bank.">>
  @@ "AP02" :> <<"Account closed", "Business", UPIStatus.REJECTED, "Account is closed; use another account.">>
  @@ "AP03" :> <<"Account frozen", "Business", UPIStatus.REJECTED, "Account frozen; contact bank.">>
  @@ "AP04" :> <<"Account inoperative", "Business", UPIStatus.REJECTED, "Account dormant; activate with bank.">>
  @@ "AP05" :> <<"No such account", "Business", UPIStatus.REJECTED, "Invalid account; check details.">>
  @@ "AP06" :> <<"Not a CBS account no. or old account no. represented with CBS no", "Business", UPIStatus.REJECTED, "Invalid account format; update to CBS.">>
  @@ "AP07" :> <<"Refer to the branch - KYC not completed", "Business", UPIStatus.REJECTED, "Complete KYC at branch.">>
  @@ "AP08" :> <<"Account holder name mismatch with CBS", "Business", UPIStatus.REJECTED, "Name mismatch; verify details.">>
  @@ "AP09" :> <<"Account type in mandate is different from CBS", "Business", UPIStatus.REJECTED, "Account type mismatch; correct it.">>
  @@ "AP10" :> <<"Amount exceeds e-mandate limit", "Business", UPIStatus.REJECTED, "Exceeds limit; reduce amount.">>
  @@ "AP11" :> <<"Authentication failed", "Technical", UPIStatus.REJECTED, "Auth failed; retry authentication.">>
  @@ "AP12" :> <<"Amount of EMI more than limit allowed for the account", "Business", UPIStatus.REJECTED, "EMI exceeds limit; adjust.">>
  @@ "AP13" :> <<"Invalid monthly EMI amount. Full loan amount mentioned", "Technical", UPIStatus.REJECTED, "Invalid EMI; specify correct amount.">>
  @@ "AP14" :> <<"Invalid user credentials", "Technical", UPIStatus.REJECTED, "Wrong credentials; re-enter.">>
  @@ "AP15" :> <<"Mandate not registered - not maintaining required balance", "Business", UPIStatus.REJECTED, "Insufficient balance for registration.">>
  @@ "AP16" :> <<"Mandate not registered - minor account", "Business", UPIStatus.REJECTED, "Minor account; not allowed.">>
  @@ "AP17" :> <<"Mandate not registered - NRE account", "Business", UPIStatus.REJECTED, "NRE account; not supported.">>
  @@ "AP18" :> <<"Mandate registration not allowed for CC account", "Business", UPIStatus.REJECTED, "Credit card account; use savings/current.">>
  @@ "AP19" :> <<"Mandate registration not allowed for PF account", "Business", UPIStatus.REJECTED, "PF account; not supported.">>
  @@ "AP20" :> <<"Mandate registration not allowed for PPF account", "Business", UPIStatus.REJECTED, "PPF account; not supported.">>
  @@ "AP21" :> <<"Payment stopped by attachment order", "Business", UPIStatus.REJECTED, "Stopped by order; contact bank.">>
  @@ "AP22" :> <<"Payment stopped by court order", "Business", UPIStatus.REJECTED, "Court order; resolve legally.">>
  @@ "AP23" :> <<"Transaction rejected or cancelled by the customer", "Business", UPIStatus.REJECTED, "Customer cancelled; reinitiate if needed.">>
  @@ "AP24" :> <<"Account not in regular status", "Business", UPIStatus.REJECTED, "Irregular account; regularize.">>
  @@ "AP25" :> <<"Withdrawal stopped owing to insolvency of account", "Business", UPIStatus.REJECTED, "Insolvency; contact bank.">>
  @@ "AP26" :> <<"Withdrawal stopped owing to lunacy of account holder", "Business", UPIStatus.REJECTED, "Legal issue; resolve.">>
  @@ "AP27" :> <<"Invalid frequency", "Technical", UPIStatus.REJECTED, "Wrong frequency; correct mandate.">>
  @@ "AP28" :> <<"Mandate registration failed - please contact your home branch", "Business", UPIStatus.REJECTED, "Contact branch for assistance.">>
  @@ "AP29" :> <<"Technical errors or connectivity issues at backend", "Technical", UPIStatus.REJECTED, "Backend issue; retry later.">>
  @@ "AP30" :> <<"Browser closed by customer mid-transaction", "Business", UPIStatus.REJECTED, "Transaction aborted; restart.">>
  @@ "AP31" :> <<"Mandate registration not allowed for joint account", "Business", UPIStatus.REJECTED, "Joint account; use individual.">>
  @@ "AP32" :> <<"Mandate registration not allowed for wallet account", "Business", UPIStatus.REJECTED, "Wallet; use bank account.">>
  @@ "AP33" :> <<"User rejected the transaction on pre-login page", "Business", UPIStatus.REJECTED, "User rejected; try again.">>
  @@ "AP34" :> <<"Account number not registered with netbanking facility", "Business", UPIStatus.REJECTED, "Enable netbanking.">>
  @@ "AP35" :> <<"Debit card validation failed - invalid card number", "Technical", UPIStatus.REJECTED, "Invalid card; check number.">>
  @@ "AP36" :> <<"Debit card validation failed - invalid expiry date", "Technical", UPIStatus.REJECTED, "Invalid expiry; check date.">>
  @@ "AP37" :> <<"Debit card validation failed - invalid PIN", "Technical", UPIStatus.REJECTED, "Wrong PIN; retry.">>
  @@ "AP38" :> <<"Debit card validation failed - invalid CVV", "Technical", UPIStatus.REJECTED, "Wrong CVV; check.">>
  @@ "AP39" :> <<"OTP invalid", "Technical", UPIStatus.REJECTED, "Invalid OTP; regenerate.">>
  @@ "AP40" :> <<"Maximum tries exceeded for OTP", "Technical", UPIStatus.REJECTED, "OTP tries exceeded; wait and retry.">>
  @@ "AP41" :> <<"Time expired for OTP", "Technical", UPIStatus.REJECTED, "OTP expired; regenerate.">>
  @@ "AP42" :> <<"Debit card not activated", "Business", UPIStatus.REJECTED, "Activate card.">>
  @@ "AP43" :> <<"Debit card blocked", "Business", UPIStatus.REJECTED, "Card blocked; unblock.">>
  @@ "AP44" :> <<"Debit card hotlisted", "Business", UPIStatus.REJECTED, "Card hotlisted; report lost.">>
  @@ "AP45" :> <<"Debit card expired", "Business", UPIStatus.REJECTED, "Card expired; renew.">>
  @@ "AP46" :> <<"No response received from customer during transaction", "Business", UPIStatus.REJECTED, "No response; retry transaction.">>
  @@ "AP47" :> <<"Account number registered for only view rights in netbanking", "Business", UPIStatus.REJECTED, "View-only; enable transactions.">>
  @@ "AP48" :> <<"Aadhaar number does not match with debtor", "Business", UPIStatus.REJECTED, "Aadhaar mismatch; verify.">>
  @@ "AP65" :> <<"Account number not linked with given debit card", "Business", UPIStatus.REJECTED, "Link account with debit card.">>
  @@ "AP66" :> <<"No response received from bank within prescribed time limit", "Technical", UPIStatus.REJECTED, "Bank timeout; retry later.">>

MandateErrorCodesKeys ==
  <<"AP01", "AP02", "AP03", "AP04", "AP05", "AP06", "AP07", "AP08", "AP09",
    "AP10", "AP11", "AP12", "AP13", "AP14", "AP15", "AP16", "AP17", "AP18",
    "AP19", "AP20", "AP21", "AP22", "AP23", "AP24", "AP25", "AP26", "AP27",
    "AP28", "AP29", "AP30", "AP31", "AP32", "AP33", "AP34", "AP35", "AP36",
    "AP37", "AP38", "AP39", "AP40", "AP41", "AP42", "AP43", "AP44", "AP45",
    "AP46", "AP47", "AP48", "AP65", "AP66">>


DisputeReasonCodesLiteral ==
     "U2" :> <<"Credit not Processed", "Chargeback", "T+5", "U2">>
  @@ "U3" :> <<"Goods/Services not as described/defective", "Chargeback", "T+5", "U3">>
  @@ "U4" :> <<"Duplicate Processing", "Chargeback", "T+5", "U4">>
  @@ "U5" :> <<"Fraud", "Chargeback", "T+5", "U5">>
  @@ "U6" :> <<"Payment not received", "Chargeback", "T+5", "U6">>
  @@ "U7" :> <<"Incorrect Amount", "Chargeback", "T+5", "U7">>
  @@ "U8" :> <<"Transaction Debited Twice", "Chargeback", "T+5", "U8">>
  @@ "U9" :> <<"Paid by Alternate Means", "Chargeback", "T+5", "U9">>
  @@ "U10" :> <<"Goods/Services not received", "Chargeback", "T+5", "U10">>
  @@ "U11" :> <<"Other", "Chargeback", "T+5", "U11">>

DisputeReasonCodesKeys ==
  <<"U2", "U3", "U4", "U5", "U6", "U7", "U8", "U9", "U10", "U11">>

\* ----------------------------------------------------------------- strings

LowerChars == "abcdefghijklmnopqrstuvwxyz"

UpperChars == "ABCDEFGHIJKLMNOPQRSTUVWXYZ"

\* The i-th character of s, a string of length 1.
CharAt(s, i) == SubSeq(s, i, i)

\* Each lower-case letter's upper-case letter, and the reverse.
UpperOf ==
  [c \in {CharAt(LowerChars, i) : i \in 1..Len(LowerChars)} |->
     CharAt(UpperChars,
            CHOOSE i \in 1..Len(LowerChars) : CharAt(LowerChars, i) = c)]

LowerOf ==
  [c \in {CharAt(UpperChars, i) : i \in 1..Len(UpperChars)} |->
     CharAt(LowerChars,
            CHOOSE i \in 1..Len(UpperChars) : CharAt(UpperChars, i) = c)]

CharToUpper(c) == IF c \in DOMAIN UpperOf THEN UpperOf[c] ELSE c

CharToLower(c) == IF c \in DOMAIN LowerOf THEN LowerOf[c] ELSE c

\* The characters of the sequence q joined into one string.
RECURSIVE Join(_)
Join(q) == IF q = <<>> THEN "" ELSE Head(q) \o Join(Tail(q))

\* String.prototype.toLowerCase.  The library never calls it; the claims
\* about case-insensitivity do.
toLowerCase(s) == Join([i \in 1..Len(s) |-> CharToLower(CharAt(s, i))])

\* Mutant: the code is looked up as it was passed.
toUpperCaseIdentity(s) == s

\* Mutant: the code is normalised to the wrong case.
toUpperCaseLowers(s) == toLowerCase(s)

\* String.prototype.toUpperCase.
toUpperCase(s) == Join([i \in 1..Len(s) |-> CharToUpper(CharAt(s, i))])

\* String.prototype.includes.
Includes(s, t) ==
  \E i \in 0..(Len(s) - Len(t)) : SubSeq(s, i + 1, i + Len(t)) = t

\* ------------------------------------------------------------------ inputs

\* The characters short code strings are built from.
Chars == {"0", "1", "4", "9", "a", "A", "p", "P", "u", "U"}

\* Longer strings a caller passes: mandate and other keys in either case,
\* text that is no code, and names every plain object inherits from
\* Object.prototype.
ExtraInputs ==
  {"ap01", "AP01", "Ap65", "ap29", "AP99", "xb", "XB", "am", "AM", "05",
   "125", "u3", "U3", "u10", "U11", "u48", "u30", "U30", "no code",
   "valueOf", "toString", "constructor", "__proto__", "CONSTRUCTOR"}

CodeInputs ==
  {Join(q) : q \in UNION {[1..n -> Chars] : n \in 0..MaxLen}} \cup ExtraInputs

\* ------------------------------------------------------------------- state

VARIABLES
  UPIErrorCodes,       \* the general-error table object
  MandateErrorCodes,   \* the mandate-error table object
  DisputeReasonCodes,  \* the dispute table object
  pc,                  \* the caller: "ready" to call, or a call has "returned"
  call,                \* the operation called and its arguments
  outcome,             \* what the call did: returned a value or threw
  draws,               \* Math.random() values the call consumed
  writes               \* write attempts made on the tables so far

vars == <<UPIErrorCodes, MandateErrorCodes, DisputeReasonCodes,
          pc, call, outcome, draws, writes>>

Return(v) == [kind |-> "return", value |-> v]

Throw(e) == [kind |-> "throw", error |-> e]

NoCall == [op |-> "none"]

NoOutcome == [kind |-> "none"]

\* ----------------------------------------------------------------- lookups

\* Property names a plain object inherits from Object.prototype.
ObjectPrototypeKeys ==
  {"constructor", "hasOwnProperty", "isPrototypeOf", "propertyIsEnumerable",
   "toLocaleString", "toString", "valueOf", "__proto__",
   "__defineGetter__", "__defineSetter__", "__lookupGetter__",
   "__lookupSetter__"}

\* Mutant: the merged object holds the second table alone.
SpreadSecondOnly(a, b) == b

\* Mutant: the second table is left out of the merged object.
SpreadFirstOnly(a, b) == a

\* {...a, ...b}: the own entries of a, then those of b over them.
Spread(a, b) ==
  LET later == DOMAIN b
  IN  [k \in DOMAIN a \cup later |-> IF k \in later THEN b[k] ELSE a[k]]

\* obj[key]: an own entry (an array), an inherited member, or undefined.
Get(obj, key) ==
  IF key \in DOMAIN obj THEN [kind |-> "array", items |-> obj[key]]
  ELSE IF key \in ObjectPrototypeKeys THEN [kind |-> "inherited"]
  ELSE [kind |-> "undefined"]

\* Mutant: the default record has an empty description.
DefaultCodeInfoBlank(upperCode) ==
  [code |-> upperCode, description |-> "", type |-> "Technical",
   status |-> UPIStatus.REJECTED, handling |-> "Contact support"]

\* Mutant: the default record carries the wrong status.
DefaultCodeInfoPending(upperCode) ==
  [code |-> upperCode, description |-> "Unknown", type |-> "Technical",
   status |-> UPIStatus.PENDING, handling |-> "Contact support"]

DefaultCodeInfo(upperCode) ==
  [code |-> upperCode, description |-> "Unknown", type |-> "Technical",
   status |-> UPIStatus.REJECTED, handling |-> "Contact support"]

\* The lookup of getCodeInfo.  An inherited member is truthy and not
\* iterable, so destructuring it throws a TypeError.
getCodeInfo(code) ==
  LET upperCode == toUpperCase(code)
      codes == Spread(UPIErrorCodes, MandateErrorCodes)
      hit == Get(codes, upperCode)
  IN  IF hit.kind = "array"
        THEN Return([code |-> upperCode, description |-> hit.items[1],
                     type |-> hit.items[2], status |-> hit.items[3],
                     handling |-> hit.items[4]])
      ELSE IF hit.kind = "inherited" THEN Throw("TypeError")
      ELSE Return(DefaultCodeInfo(upperCode))

DefaultDisputeInfo(upperCode) ==
  [code |-> upperCode, description |-> "Unknown Dispute",
   disputeType |-> "Chargeback", tat |-> "T+5", flag |-> "Unknown"]

\* Mutant: the third and fourth element of the entry are taken the other
\* way round, so flag carries the turnaround time.
getDisputeInfoSwapped(code) ==
  LET upperCode == toUpperCase(code)
      hit == Get(DisputeReasonCodes, upperCode)
  IN  IF hit.kind = "array"
        THEN Return([code |-> upperCode, description |-> hit.items[1],
                     disputeType |-> hit.items[2], tat |-> hit.items[4],
                     flag |-> hit.items[3]])
      ELSE IF hit.kind = "inherited" THEN Throw("TypeError")
      ELSE Return(DefaultDisputeInfo(upperCode))

\* Mutant: the dispute table is merged under the general-error table, so a
\* code that is a key of both resolves to the general-error entry.
getDisputeInfoGeneralFirst(code) ==
  LET upperCode == toUpperCase(code)
      hit == Get(Spread(DisputeReasonCodes, UPIErrorCodes), upperCode)
  IN  IF hit.kind = "array"
        THEN Return([code |-> upperCode, description |-> hit.items[1],
                     disputeType |-> hit.items[2], tat |-> hit.items[3],
                     flag |-> hit.items[4]])
      ELSE IF hit.kind = "inherited" THEN Throw("TypeError")
      ELSE Return(DefaultDisputeInfo(upperCode))

getDisputeInfo(code) ==
  LET upperCode == toUpperCase(code)
      hit == Get(DisputeReasonCodes, upperCode)
  IN  IF hit.kind = "array"
        THEN Return([code |-> upperCode, description |-> hit.items[1],
                     disputeType |-> hit.items[2], tat |-> hit.items[3],
                     flag |-> hit.items[4]])
      ELSE IF hit.kind = "inherited" THEN Throw("TypeError")
      ELSE Return(DefaultDisputeInfo(upperCode))

\* -------------------------------------------------------------- simulation

\* An argument the caller may leave out (undefined): given = FALSE.
Undefined == [given |-> FALSE]

Arg(v) == [given |-> TRUE, v |-> v]

\* A success rate num / den (den > 0), or NaN.
Rate(num, den) == [nan |-> FALSE, num |-> num, den |-> den]

NaN == [nan |-> TRUE]

\* The transactionType arguments a caller passes: the six enumeration
\* values, undefined, and strings outside the enumeration (a key name, a
\* value in another case, the empty string).
TransactionTypeArgs ==
  {Arg(v) : v \in ObjectValues(UPITransactionType)}
    \cup {Undefined, Arg("PAY"), Arg("upi lite"), Arg("")}

\* The successRate arguments: 0.0, 0.5, 1.0, left out, NaN, and a value
\* above 1, which the code does not reject.
SuccessRateArgs ==
  {Arg(Rate(0, 1)), Arg(Rate(1, 2)), Arg(Rate(1, 1)), Undefined, Arg(NaN),
   Arg(Rate(3, 2))}

\* The values Math.random() returns, as numerators over RandDen: [0, 1).
Rand == 0..(RandDen - 1)

\* Mutant: the comparison is the wrong way round.
RandomBelowInverted(r, successRate) ==
  /\ ~successRate.nan
  /\ successRate.num * RandDen < r * successRate.den

\* Mutant: <= for <.
RandomBelowOrEqual(r, successRate) ==
  /\ ~successRate.nan
  /\ r * successRate.den <= successRate.num * RandDen

\* Math.random() < successRate, for the draw r / RandDen.
RandomBelow(r, successRate) ==
  /\ ~successRate.nan
  /\ r * successRate.den < successRate.num * RandDen

\* Mutant: the index is scaled by n - 1, so the last element is never drawn.
RandomIndexShort(r, n) == (r * (n - 1)) \div RandDen

\* Math.floor(Math.random() * n), for the draw r / RandDen.
RandomIndex(r, n) == (r * n) \div RandDen

\* Object.keys(obj) of a table whose keys are listed in order.
ObjectKeys(obj, order) ==
  LET own == DOMAIN obj IN SelectSeq(order, LAMBDA k : k \in own)

\* The default value of the successRate parameter, 0.8.
DefaultSuccessRate == Rate(4, 5)

\* The successRate parameter with its default applied.
SuccessRateOf(successRateArg) ==
  IF successRateArg.given THEN successRateArg.v ELSE DefaultSuccessRate

\* Whether the first draw r1 takes the success branch.
Succeeds(successRateArg, r1) ==
  RandomBelow(r1, SuccessRateOf(successRateArg))

\* The record a simulation returns, { transactionType, ...info }, or the
\* error getCodeInfo threw.
WithTransactionType(transactionType, info) ==
  IF info.kind = "return"
    THEN Return(Spread([transactionType |-> transactionType], info.value))
    ELSE info

\* The transactionType parameter with its default applied.
TransactionTypeOf(transactionTypeArg) ==
  IF transactionTypeArg.given THEN transactionTypeArg.v
                              ELSE UPITransactionType.PAY

\* Mutant: the transaction type is not checked.
AcceptedAlways(transactionTypeArg) == TRUE

\* The check on the transaction type that simulateTransaction starts with.
Accepted(transactionTypeArg) ==
  TransactionTypeOf(transactionTypeArg) \in ObjectValues(UPITransactionType)

\* simulateTransaction with the draws r1 and, on the failure branch, r2.
\* The result is the outcome and the number of draws made.
simulateTransaction(transactionTypeArg, successRateArg, r1, r2) ==
  LET transactionType == TransactionTypeOf(transactionTypeArg)
      codes == ObjectKeys(UPIErrorCodes, UPIErrorCodesKeys)
      failureCodes == SelectSeq(codes, LAMBDA c : c # "00" /\ c # "000")
      success == Succeeds(successRateArg, r1)
      code == IF success THEN "00"
              ELSE failureCodes[RandomIndex(r2, Len(failureCodes)) + 1]
  IN  IF ~Accepted(transactionTypeArg)
        THEN [outcome |-> Throw("Error: Invalid transaction type"),
              draws |-> 0]
        ELSE [outcome |-> WithTransactionType(transactionType,
                                              getCodeInfo(code)),
              draws |-> IF success THEN 1 ELSE 2]

\* Mutant: the failure branch draws from the general-error table.
simulateMandateRegistrationGeneral(successRateArg, r1, r2) ==
  LET codes == ObjectKeys(UPIErrorCodes, UPIErrorCodesKeys)
      success == Succeeds(successRateArg, r1)
      code == IF success THEN "00"
              ELSE codes[RandomIndex(r2, Len(codes)) + 1]
  IN  [outcome |-> WithTransactionType("Mandate Registration",
                                       getCodeInfo(code)),
       draws |-> IF success THEN 1 ELSE 2]

\* simulateMandateRegistration with the draws r1 and, on failure, r2.
simulateMandateRegistration(successRateArg, r1, r2) ==
  LET codes == ObjectKeys(MandateErrorCodes, MandateErrorCodesKeys)
      success == Succeeds(successRateArg, r1)
      code == IF success THEN "00"
              ELSE codes[RandomIndex(r2, Len(codes)) + 1]
  IN  [outcome |-> WithTransactionType("Mandate Registration",
                                       getCodeInfo(code)),
       draws |-> IF success THEN 1 ELSE 2]

\* Mutant: the Business rule is tried before the Technical-and-Rejected one.
SuffixBusinessFirst(info) ==
  IF info.status = UPIStatus.PENDING
    THEN " Monitor for resolution."
  ELSE IF Includes(info.type, "Business")
    THEN " User intervention required; do not retry automatically."
  ELSE IF Includes(info.type, "Technical") /\ info.status = UPIStatus.REJECTED
    THEN " Retry after a short delay."
  ELSE ""

\* Mutant: the Pending rule is missing and Technical alone means retry.
SuffixNoPending(info) ==
  IF Includes(info.type, "Technical")
    THEN " Retry after a short delay."
  ELSE IF Includes(info.type, "Business")
    THEN " User intervention required; do not retry automatically."
  ELSE ""

\* The suffix handleEdgeCase appends for a resolved record.
Suffix(info) ==
  IF info.status = UPIStatus.PENDING
    THEN " Monitor for resolution."
  ELSE IF Includes(info.type, "Technical") /\ info.status = UPIStatus.REJECTED
    THEN " Retry after a short delay."
  ELSE IF Includes(info.type, "Business")
    THEN " User intervention required; do not retry automatically."
  ELSE ""

\* Mutant: the code of the result is the argument as passed, not the code
\* of the resolved record.
handleEdgeCaseRawCode(code) ==
  LET info == getCodeInfo(code)
  IN  IF info.kind = "return"
        THEN Return([code |-> code,
                     suggestedAction |->
                       info.value.handling \o Suffix(info.value)])
        ELSE info

handleEdgeCase(code) ==
  LET info == getCodeInfo(code)
  IN  IF info.kind = "return"
        THEN Return([code |-> info.value.code,
                     suggestedAction |->
                       info.value.handling \o Suffix(info.value)])
        ELSE info

\* ----------------------------------------------------------------- actions

Init ==
  /\ UPIErrorCodes = UPIErrorCodesLiteral
  /\ MandateErrorCodes = MandateErrorCodesLiteral
  /\ DisputeReasonCodes = DisputeReasonCodesLiteral
  /\ pc = "ready"
  /\ call = NoCall
  /\ outcome = NoOutcome
  /\ draws = 0
  /\ writes = 0

\* What every library call leaves alone.
Frame == UNCHANGED <<UPIErrorCodes, MandateErrorCodes, DisputeReasonCodes,
                     writes>>

CallGetCodeInfo ==
  /\ pc = "ready"
  /\ \E code \in CodeInputs :
       /\ call' = [op |-> "getCodeInfo", code |-> code]
       /\ outcome' = getCodeInfo(code)
  /\ draws' = 0
  /\ pc' = "returned"
  /\ Frame

CallGetDisputeInfo ==
  /\ pc = "ready"
  /\ \E code \in CodeInputs :
       /\ call' = [op |-> "getDisputeInfo", code |-> code]
       /\ outcome' = getDisputeInfo(code)
  /\ draws' = 0
  /\ pc' = "returned"
  /\ Frame

CallHandleEdgeCase ==
  /\ pc = "ready"
  /\ \E code \in CodeInputs :
       /\ call' = [op |-> "handleEdgeCase", code |-> code]
       /\ outcome' = handleEdgeCase(code)
  /\ draws' = 0
  /\ pc' = "returned"
  /\ Frame

\* No draw is made when the transaction type is rejected, and the second
\* draw is made on the failure branch only; a draw not made is written 0.
CallSimulateTransaction ==
  /\ pc = "ready"
  /\ \E transactionType \in TransactionTypeArgs,
        successRate \in SuccessRateArgs :
       \E r1 \in IF Accepted(transactionType) THEN Rand ELSE {0} :
         \E r2 \in IF Accepted(transactionType) /\ ~Succeeds(successRate, r1)
                     THEN Rand ELSE {0} :
           \E res \in {simulateTransaction(transactionType, successRate,
                                            r1, r2)} :
             /\ call' = [op |-> "simulateTransaction",
                         transactionType |-> transactionType,
                         successRate |-> successRate]
             /\ outcome' = res.outcome
             /\ draws' = res.draws
  /\ pc' = "returned"
  /\ Frame

CallSimulateMandateRegistration ==
  /\ pc = "ready"
  /\ \E successRate \in SuccessRateArgs, r1 \in Rand :
       \E r2 \in IF Succeeds(successRate, r1) THEN {0} ELSE Rand :
         \E res \in {simulateMandateRegistration(successRate, r1, r2)} :
           /\ call' = [op |-> "simulateMandateRegistration",
                       successRate |-> successRate]
           /\ outcome' = res.outcome
           /\ draws' = res.draws
  /\ pc' = "returned"
  /\ Frame

\* The caller takes the result and goes on to its next call.
Continue ==
  /\ pc = "returned"
  /\ pc' = "ready"
  /\ call' = NoCall
  /\ outcome' = NoOutcome
  /\ draws' = 0
  /\ Frame

\* ------------------------------------------------- writes by the caller
\* The tables are exported, so a caller can attempt to write to them.
\* Object.freeze makes the table object itself read-only: adding, deleting
\* or replacing a property does nothing in sloppy-mode code and throws a
\* TypeError in strict-mode code.  The entries are arrays that were not
\* frozen, so an assignment to an element of an entry takes effect.

TableNames == {"UPIErrorCodes", "MandateErrorCodes", "DisputeReasonCodes"}

Table(t) ==
  CASE t = "UPIErrorCodes" -> UPIErrorCodes
    [] t = "MandateErrorCodes" -> MandateErrorCodes
    [] t = "DisputeReasonCodes" -> DisputeReasonCodes

\* The keys, entry and element values a caller writes with.
WriteKeys == {"U3", "AP01"}

WriteEntry == <<"Tampered", "Business", UPIStatus.SUCCESS, "None">>

WriteValues == {UPIStatus.SUCCESS, ""}

\* A write to a property of a frozen object.
FrozenWrite(strict) == IF strict THEN Throw("TypeError") ELSE [kind |-> "ignored"]

\* table[key] = entry for a new key, table[key] = entry for an existing
\* key, and delete table[key]: the frozen table keeps its properties.
WriteToTable ==
  /\ pc = "ready"
  /\ writes < MaxWrites
  /\ \E how \in {"add", "replace", "delete"}, t \in TableNames,
        key \in WriteKeys, strict \in BOOLEAN :
       /\ (how = "add") <=> (key \notin DOMAIN Table(t))
       /\ call' = [op |-> "write", how |-> how, table |-> t, key |-> key,
                   strict |-> strict]
       /\ outcome' = FrozenWrite(strict)
  /\ writes' = writes + 1
  /\ draws' = 0
  /\ pc' = "returned"
  /\ UNCHANGED <<UPIErrorCodes, MandateErrorCodes, DisputeReasonCodes>>

\* The table t after table[key][i] = v took effect.
SetElement(t, name, key, i, v) ==
  IF t = name THEN [Table(t) EXCEPT ![key][i] = v] ELSE Table(name)

\* table[key][i] = v: the element of an existing entry is written;
\* without an entry, table[key] is undefined and the assignment throws.
WriteToEntry ==
  /\ pc = "ready"
  /\ writes < MaxWrites
  /\ \E t \in TableNames, key \in WriteKeys, i \in 1..4, v \in WriteValues :
       /\ call' = [op |-> "write", how |-> "element", table |-> t,
                   key |-> key, index |-> i, value |-> v]
       /\ IF key \in DOMAIN Table(t)
            THEN /\ UPIErrorCodes' =
                      SetElement(t, "UPIErrorCodes", key, i, v)
                 /\ MandateErrorCodes' =
                      SetElement(t, "MandateErrorCodes", key, i, v)
                 /\ DisputeReasonCodes' =
                      SetElement(t, "DisputeReasonCodes", key, i, v)
                 /\ outcome' = [kind |-> "written"]
            ELSE /\ UNCHANGED <<UPIErrorCodes, MandateErrorCodes,
                                DisputeReasonCodes>>
                 /\ outcome' = Throw("TypeError")
  /\ writes' = writes + 1
  /\ draws' = 0
  /\ pc' = "returned"

\* ------------------------------------- writes to the returned records
\* A caller owns the record an operation returned and can assign to its
\* fields.  Whether that reaches a table depends on what the record shares
\* with the table.

NotShared == [shared |-> FALSE]

EntryIndex(field) ==
  CASE field = "description" -> 1
    [] field = "type" -> 2
    [] field = "disputeType" -> 2
    [] field = "status" -> 3
    [] field = "tat" -> 3
    [] field = "handling" -> 4
    [] field = "flag" -> 4
    [] OTHER -> 0

\* Mutant: getCodeInfo hands out the table entry itself, so a field of the
\* returned record is the element of the entry.
SharedLocationEntry(c, field) ==
  IF c.op # "getCodeInfo" \/ EntryIndex(field) = 0 THEN NotShared
  ELSE LET upperCode == toUpperCase(c.code)
       IN  IF upperCode \in DOMAIN MandateErrorCodes
             THEN [shared |-> TRUE, table |-> "MandateErrorCodes",
                   key |-> upperCode, index |-> EntryIndex(field)]
           ELSE IF upperCode \in DOMAIN UPIErrorCodes
             THEN [shared |-> TRUE, table |-> "UPIErrorCodes",
                   key |-> upperCode, index |-> EntryIndex(field)]
           ELSE NotShared

\* The table element that a field of the record returned by the call c is
\* stored in.  Every operation destructures the entry into strings and
\* returns a new object literal built from them, so no field of a returned
\* record is an element of a table.
SharedLocation(c, field) == NotShared

\* record[field] = v on the record the last call returned.
MutateReturned ==
  /\ pc = "returned"
  /\ outcome.kind = "return"
  /\ \E field \in DOMAIN outcome.value, v \in {WriteEntry[1]} :
       /\ outcome' = [kind |-> "mutated",
                      value |-> [outcome.value EXCEPT ![field] = v]]
       /\ \E at \in {SharedLocation(call, field)} :
            IF at.shared
              THEN /\ UPIErrorCodes' =
                        SetElement(at.table, "UPIErrorCodes", at.key,
                                   at.index, v)
                   /\ MandateErrorCodes' =
                        SetElement(at.table, "MandateErrorCodes", at.key,
                                   at.index, v)
                   /\ DisputeReasonCodes' =
                        SetElement(at.table, "DisputeReasonCodes", at.key,
                                   at.index, v)
              ELSE UNCHANGED <<UPIErrorCodes, MandateErrorCodes,
                               DisputeReasonCodes>>
  /\ UNCHANGED <<pc, call, draws, writes>>

Next ==
  \/ CallGetCodeInfo
  \/ CallGetDisputeInfo
  \/ CallHandleEdgeCase
  \/ CallSimulateTransaction
  \/ CallSimulateMandateRegistration
  \/ Continue

Spec == Init /\ [][Next]_vars

\* The lookups with a caller that also writes to the exported tables.
NextWrite ==
  \/ WriteToTable
  \/ WriteToEntry
  \/ CallGetCodeInfo
  \/ CallGetDisputeInfo
  \/ Continue

SpecWrite == Init /\ [][NextWrite]_vars

\* The library with a caller that also writes to the records it got back.
NextMutate ==
  \/ CallGetCodeInfo
  \/ CallGetDisputeInfo
  \/ CallHandleEdgeCase
  \/ CallSimulateTransaction
  \/ CallSimulateMandateRegistration
  \/ MutateReturned
  \/ Continue

SpecMutate == Init /\ [][NextMutate]_vars

\* ------------------------------------------------------------------ claims

Returned(op) == pc = "returned" /\ call.op = op

\* The keys of the two error tables.
ErrorKeys == DOMAIN UPIErrorCodes \cup DOMAIN MandateErrorCodes

\* The record getCodeInfo builds from an entry of an error table.
EntryRecord(upperCode, entry) ==
  [code |-> upperCode, description |-> entry[1], type |-> entry[2],
   status |-> entry[3], handling |-> entry[4]]

\* C1: getCodeInfo of a string whose upper-case form is a key of neither
\* error table returns exactly the default record: code the upper-case
\* input, description "Unknown", type "Technical", status Rejected,
\* handling "Contact support".
C1_UnknownCodeGetsDefault ==
  (Returned("getCodeInfo") /\ toUpperCase(call.code) \notin ErrorKeys)
    => outcome = Return([code |-> toUpperCase(call.code),
                         description |-> "Unknown",
                         type |-> "Technical",
                         status |-> "Rejected",
                         handling |-> "Contact support"])

\* An unknown code with lower-case letters was looked up.
C1_Witness ==
  /\ Returned("getCodeInfo")
  /\ call.code = "no code"
  /\ outcome.kind = "return"
  /\ outcome.value.code = "NO CODE"
  /\ outcome.value.description = "Unknown"

\* The two-step lookup: the general-error table first, the mandate-error
\* table only when the code is absent there, then the default record.
OrderedLookup(code) ==
  LET upperCode == toUpperCase(code)
  IN  IF upperCode \in DOMAIN UPIErrorCodes
        THEN EntryRecord(upperCode, UPIErrorCodes[upperCode])
      ELSE IF upperCode \in DOMAIN MandateErrorCodes
        THEN EntryRecord(upperCode, MandateErrorCodes[upperCode])
      ELSE DefaultCodeInfo(upperCode)

\* C2: for every input, getCodeInfo returns what the ordered lookup
\* (general-error table first, then mandate-error table, then the default)
\* returns; a key of both tables would resolve to its general-error entry.
C2_GeneralTableFirst ==
  Returned("getCodeInfo") => outcome = Return(OrderedLookup(call.code))

\* A mandate code, absent from the general-error table, was resolved to
\* its mandate-error entry.
C2_Witness ==
  /\ Returned("getCodeInfo")
  /\ call.code = "ap01"
  /\ "AP01" \notin DOMAIN UPIErrorCodes
  /\ outcome.kind = "return"
  /\ outcome.value.description = "Account blocked"

\* C3: whatever a caller attempts to write to the exported tables, every
\* table holds the entries and field values it had at construction, and
\* each attempt is silently ineffective or fails.
C3_TablesStayAsConstructed ==
  /\ UPIErrorCodes = UPIErrorCodesLiteral
  /\ MandateErrorCodes = MandateErrorCodesLiteral
  /\ DisputeReasonCodes = DisputeReasonCodesLiteral
  /\ Returned("write") => outcome.kind \in {"ignored", "throw"}

\* C4: for every key c of the general-error table, getCodeInfo(c) and
\* getCodeInfo(lowercase(c)) are equal in every field.
C4_CaseInsensitive ==
  (Returned("getCodeInfo") /\ call.code \in DOMAIN UPIErrorCodes)
    => /\ outcome.kind = "return"
       /\ getCodeInfo(toLowerCase(call.code)) = outcome

\* A general-error key with a letter, which its lower-case form differs
\* from, was looked up and found.
C4_Witness ==
  /\ Returned("getCodeInfo")
  /\ call.code = "U4"
  /\ toLowerCase(call.code) = "u4"
  /\ outcome.kind = "return"
  /\ outcome.value.description = "Invalid encryption"

\* C5: getCodeInfo never throws: for every string, the empty string and
\* text that is no code included, it returns a record.
C5_GetCodeInfoNeverThrows ==
  Returned("getCodeInfo")
    => /\ outcome.kind = "return"
       /\ DOMAIN outcome.value =
            {"code", "description", "type", "status", "handling"}

\* The empty string was looked up and the default record came back.
C5_Witness ==
  /\ Returned("getCodeInfo")
  /\ call.code = ""
  /\ outcome = Return(DefaultCodeInfo(""))

\* The operations other than simulateTransaction.
OtherOperations ==
  {"getCodeInfo", "getDisputeInfo", "simulateMandateRegistration",
   "handleEdgeCase"}

InvalidTransactionType == Throw("Error: Invalid transaction type")

\* C6, as claimed: simulateTransaction with a transactionType that is not
\* an enumeration value throws for every successRate, before any draw and
\* without a record; no other operation throws.
C6_AnyNonMemberThrows ==
  /\ (Returned("simulateTransaction")
        /\ ~(/\ call.transactionType.given
             /\ call.transactionType.v \in ObjectValues(UPITransactionType)))
       => (outcome = InvalidTransactionType /\ draws = 0)
  /\ (pc = "returned" /\ call.op \in OtherOperations)
       => outcome.kind = "return"

\* C6, amended: simulateTransaction with a transactionType other than
\* undefined that is not an enumeration value throws for every
\* successRate, before any draw and without a record; with undefined the
\* default Pay is simulated and nothing is thrown; no other operation
\* throws.
C6_DefinedNonMemberThrows ==
  /\ (Returned("simulateTransaction")
        /\ call.transactionType.given
        /\ call.transactionType.v \notin ObjectValues(UPITransactionType))
       => (outcome = InvalidTransactionType /\ draws = 0)
  /\ (Returned("simulateTransaction") /\ ~call.transactionType.given)
       => /\ outcome.kind = "return"
          /\ outcome.value.transactionType = "Pay Request (Push)"
          /\ draws >= 1
  /\ (pc = "returned" /\ call.op \in OtherOperations)
       => outcome.kind = "return"

\* A string outside the enumeration was passed and the call threw.
C6_Witness ==
  /\ Returned("simulateTransaction")
  /\ call.transactionType = Arg("PAY")
  /\ call.successRate = Arg(Rate(1, 1))
  /\ outcome.kind = "throw"
  /\ draws = 0

\* C7: handleEdgeCase of a code resolved to type "Business/Technical" and
\* status Rejected returns the handling text followed by the retry suffix,
\* not the user-intervention suffix.
C7_CompoundCategoryRetries ==
  (Returned("handleEdgeCase") /\ getCodeInfo(call.code).kind = "return")
    => LET info == getCodeInfo(call.code).value
       IN  (info.type = "Business/Technical" /\ info.status = "Rejected")
             => /\ outcome =
                     Return([code |-> info.code,
                             suggestedAction |->
                               info.handling \o " Retry after a short delay."])
                /\ outcome.value.suggestedAction #
                     info.handling
                       \o " User intervention required; do not retry automatically."

\* Code 04, of type Business/Technical, got the retry suffix.
C7_Witness ==
  /\ Returned("handleEdgeCase")
  /\ call.code = "04"
  /\ UPIErrorCodes["04"][2] = "Business/Technical"
  /\ outcome.kind = "return"
  /\ outcome.value.suggestedAction =
       "Insufficient funds; top up account. Retry after a short delay."

\* C8: handleEdgeCase of a code resolved to status Pending returns the
\* handling text followed by the monitor suffix and nothing else, whatever
\* the type; for "091" that is the timeout handling plus the monitor suffix.
C8_PendingMonitors ==
  (Returned("handleEdgeCase") /\ getCodeInfo(call.code).kind = "return")
    => LET info == getCodeInfo(call.code).value
       IN  /\ info.status = "Pending"
             => outcome =
                  Return([code |-> info.code,
                          suggestedAction |->
                            info.handling \o " Monitor for resolution."])
           /\ call.code = "091"
             => outcome.value.suggestedAction =
                  "Wait; do not reinitiate. Monitor for resolution."

\* Code 091, Technical and Pending, got the monitor suffix.
C8_Witness ==
  /\ Returned("handleEdgeCase")
  /\ call.code = "091"
  /\ UPIErrorCodes["091"][2] = "Technical"
  /\ UPIErrorCodes["091"][3] = "Pending"
  /\ outcome.kind = "return"
  /\ outcome.value.code = "091"

\* C9: with successRate 1.0 and a valid transactionType, every call of
\* simulateTransaction returns the success record, code "00" with status
\* Success, whatever the random source returns.
C9_RateOneAlwaysSucceeds ==
  (Returned("simulateTransaction")
     /\ Accepted(call.transactionType)
     /\ call.successRate = Arg(Rate(1, 1)))
    => /\ outcome.kind = "return"
       /\ outcome.value.code = "00"
       /\ outcome.value.status = "Processed"
       /\ outcome.value.description = "Approved or completed successfully"

\* A call with successRate 1.0 returned the success record after one draw.
C9_Witness ==
  /\ Returned("simulateTransaction")
  /\ call.transactionType = Arg("UPI Lite")
  /\ call.successRate = Arg(Rate(1, 1))
  /\ outcome.kind = "return"
  /\ outcome.value.code = "00"
  /\ draws = 1

\* C10: with successRate 0.0 and a valid transactionType, no call of
\* simulateTransaction returns a record whose status is Success, whatever
\* the random source returns.
C10_RateZeroNeverSucceeds ==
  (Returned("simulateTransaction")
     /\ Accepted(call.transactionType)
     /\ call.successRate = Arg(Rate(0, 1)))
    => /\ outcome.kind = "return"
       /\ outcome.value.status # "Processed"
       /\ outcome.value.code \notin {"00", "000"}

\* A call with successRate 0.0 returned a rejected code after two draws.
C10_Witness ==
  /\ Returned("simulateTransaction")
  /\ call.transactionType = Arg("UPI for ASBA")
  /\ call.successRate = Arg(Rate(0, 1))
  /\ outcome.kind = "return"
  /\ outcome.value.status = "Rejected"
  /\ draws = 2

\* The general-error codes whose status is not Success.
NonSuccessCodes ==
  {k \in DOMAIN UPIErrorCodes : UPIErrorCodes[k][3] # UPIStatus.SUCCESS}

\* The code simulateTransaction resolves on the failure branch for the
\* second draw r2 (successRate 0.0, so every first draw fails).
FailureCodeDrawn(r2) ==
  simulateTransaction(Arg(UPITransactionType.PAY), Arg(Rate(0, 1)), 0, r2)
    .outcome.value.code

\* C11: for a valid transactionType simulateTransaction returns
\* getCodeInfo(k) extended with the transactionType passed; k is "00" when
\* the first draw is below successRate (one draw made), and otherwise (two
\* draws made) k is a general-error code whose status is not Success, and
\* every such code is selected by some second draw.
C11_SimulateTransactionRecord ==
  /\ (Returned("simulateTransaction") /\ Accepted(call.transactionType))
       => /\ outcome.kind = "return"
          /\ outcome.value =
               [transactionType |-> TransactionTypeOf(call.transactionType)]
                 @@ getCodeInfo(outcome.value.code).value
          /\ draws = 1 => outcome.value.code = "00"
          /\ draws = 2 => outcome.value.code \in NonSuccessCodes
          /\ draws \in {1, 2}
  /\ pc = "ready"
       => \A k \in NonSuccessCodes : \E r2 \in Rand : FailureCodeDrawn(r2) = k

\* The failure branch drew YD, the last key of the general-error table.
C11_Witness ==
  /\ Returned("simulateTransaction")
  /\ call.transactionType = Arg("Collect Request (Pull)")
  /\ outcome.kind = "return"
  /\ outcome.value.transactionType = "Collect Request (Pull)"
  /\ outcome.value.code = "YD"
  /\ outcome.value.description = "Do not honour (beneficiary)"
  /\ draws = 2

\* The code simulateMandateRegistration resolves on the failure branch for
\* the second draw r2 (successRate 0.0, so every first draw fails).
MandateCodeDrawn(r2) ==
  simulateMandateRegistration(Arg(Rate(0, 1)), 0, r2).outcome.value.code

\* C12: simulateMandateRegistration always returns a record whose
\* transactionType is "Mandate Registration"; after a first draw below
\* successRate the rest is getCodeInfo("00"), of status Success; otherwise
\* it is the record of a key of the mandate-error table, never of a
\* general-error key, and every mandate-error key is selected by some
\* second draw.
C12_MandateRegistrationRecord ==
  /\ Returned("simulateMandateRegistration")
       => /\ outcome.kind = "return"
          /\ outcome.value.transactionType = "Mandate Registration"
          /\ draws \in {1, 2}
          /\ draws = 1
               => /\ outcome.value =
                       [transactionType |-> "Mandate Registration"]
                         @@ getCodeInfo("00").value
                  /\ outcome.value.status = UPIStatus.SUCCESS
          /\ draws = 2
               => /\ outcome.value.code \in DOMAIN MandateErrorCodes
                  /\ outcome.value.code \notin DOMAIN UPIErrorCodes
                  /\ outcome.value =
                       [transactionType |-> "Mandate Registration"]
                         @@ EntryRecord(outcome.value.code,
                                        MandateErrorCodes[outcome.value.code])
  /\ pc = "ready"
       => \A k \in DOMAIN MandateErrorCodes :
            \E r2 \in Rand : MandateCodeDrawn(r2) = k

\* The failure branch drew AP66, the last key of the mandate-error table.
C12_Witness ==
  /\ Returned("simulateMandateRegistration")
  /\ outcome.kind = "return"
  /\ outcome.value.transactionType = "Mandate Registration"
  /\ outcome.value.code = "AP66"
  /\ outcome.value.status = UPIStatus.REJECTED
  /\ draws = 2

\* The record getDisputeInfo builds from a dispute-table entry.
DisputeRecord(upperCode, entry) ==
  [code |-> upperCode, description |-> entry[1], disputeType |-> entry[2],
   tat |-> entry[3], flag |-> entry[4]]

\* The dispute codes that are keys of the general-error table too.
SharedDisputeKeys == DOMAIN DisputeReasonCodes \cap DOMAIN UPIErrorCodes

\* C13: getDisputeInfo resolves the upper-cased input against the dispute
\* table only: a key of that table yields that entry's description,
\* disputeType, tat and flag, also when the key (U3, U4, U5) is a key of the
\* general-error table, whose entry is never returned; every other string
\* yields, without error, the default record "Unknown Dispute",
\* "Chargeback", "T+5", "Unknown" with code the upper-cased input.
C13_DisputeTableOnly ==
  /\ Returned("getDisputeInfo")
       => LET upperCode == toUpperCase(call.code)
          IN  /\ outcome.kind = "return"
              /\ IF upperCode \in DOMAIN DisputeReasonCodes
                   THEN /\ outcome.value =
                             DisputeRecord(upperCode,
                                           DisputeReasonCodes[upperCode])
                        /\ upperCode \in SharedDisputeKeys
                             => outcome.value.description
                                  # UPIErrorCodes[upperCode][1]
                   ELSE outcome.value =
                          [code |-> upperCode,
                           description |-> "Unknown Dispute",
                           disputeType |-> "Chargeback", tat |-> "T+5",
                           flag |-> "Unknown"]
  /\ pc = "ready"
       => /\ SharedDisputeKeys = {"U3", "U4", "U5"}
          /\ \A c \in SharedDisputeKeys :
               getDisputeInfo(c) =
                 Return(DisputeRecord(c, DisputeReasonCodes[c]))

\* getDisputeInfo("u3") returned the dispute entry of U3, not the
\* general-error entry of U3.
C13_Witness ==
  /\ Returned("getDisputeInfo")
  /\ call.code = "u3"
  /\ outcome =
       Return([code |-> "U3",
               description |-> "Goods/Services not as described/defective",
               disputeType |-> "Chargeback", tat |-> "T+5", flag |-> "U3"])
  /\ "U3" \in DOMAIN UPIErrorCodes

\* The output the README's usage example documents for getCodeInfo('u48').
ReadmeU48Output ==
  [code |-> "U48",
   description |->
     "Transaction ID is not present or not found in UPI System",
   type |-> "Technical", status |-> "Rejected",
   handling |-> "Invalid or missing transaction ID; verify and retry status check after 2 hours if within first 2 hours."]

\* C14: the README's usage example holds: getCodeInfo('u48') returns the
\* record with code U48, description "Transaction ID is not present or not
\* found in UPI System", type Technical, status Rejected and the handling
\* text about verifying and retrying the status check; U48 does not resolve
\* to the "Unknown" default record.
C14_ReadmeExampleHolds ==
  (Returned("getCodeInfo") /\ toUpperCase(call.code) = "U48")
    => /\ outcome = Return(ReadmeU48Output)
       /\ outcome.value.description # "Unknown"

\* A record with a non-empty description and a status of the enumeration.
WellFormedRecord(info) ==
  /\ info.description # ""
  /\ info.status \in ObjectValues(UPIStatus)

\* C15: every record getCodeInfo returns, for a key of the general-error
\* table, a key of the mandate-error table or any other string, has a
\* non-empty description and a status that is one of the three values of
\* the status enumeration.
C15_RecordsWellFormed ==
  /\ Returned("getCodeInfo")
       => /\ outcome.kind = "return"
          /\ WellFormedRecord(outcome.value)
  /\ pc = "ready"
       => \A k \in ErrorKeys : WellFormedRecord(getCodeInfo(k).value)

\* getCodeInfo returned the default record, for a string that is no key.
C15_Witness ==
  /\ Returned("getCodeInfo")
  /\ toUpperCase(call.code) \notin ErrorKeys
  /\ outcome.kind = "return"
  /\ outcome.value.description = "Unknown"
  /\ outcome.value.status = "Rejected"

\* What getCodeInfo(code) returns when called first, on the tables as
\* constructed.
FirstCodeInfo(code) ==
  LET upperCode == toUpperCase(code)
  IN  IF upperCode \in DOMAIN MandateErrorCodesLiteral
        THEN EntryRecord(upperCode, MandateErrorCodesLiteral[upperCode])
      ELSE IF upperCode \in DOMAIN UPIErrorCodesLiteral
        THEN EntryRecord(upperCode, UPIErrorCodesLiteral[upperCode])
      ELSE [code |-> upperCode, description |-> "Unknown",
            type |-> "Technical", status |-> "Rejected",
            handling |-> "Contact support"]

\* What getDisputeInfo(code) returns when called first.
FirstDisputeInfo(code) ==
  LET upperCode == toUpperCase(code)
  IN  IF upperCode \in DOMAIN DisputeReasonCodesLiteral
        THEN DisputeRecord(upperCode, DisputeReasonCodesLiteral[upperCode])
      ELSE [code |-> upperCode, description |-> "Unknown Dispute",
            disputeType |-> "Chargeback", tat |-> "T+5",
            flag |-> "Unknown"]

\* The codes looked up again in every state: fixed ones of each table and
\* of none, and the code the last call was about.
ProbeCodes ==
  {"u3", "ap01", "zz"}
    \cup (IF "code" \in DOMAIN call THEN {call.code}
          ELSE IF outcome.kind \in {"return", "mutated"}
            THEN {outcome.value.code}
          ELSE {})

\* C16: the operations have no side effect on shared state: after any
\* sequence of calls of the five operations, interleaved with assignments
\* by the caller to fields of the records they returned, the three tables
\* are as constructed and getCodeInfo(c) and getDisputeInfo(c) return the
\* field values of the first call.
C16_NoSideEffects ==
  /\ UPIErrorCodes = UPIErrorCodesLiteral
  /\ MandateErrorCodes = MandateErrorCodesLiteral
  /\ DisputeReasonCodes = DisputeReasonCodesLiteral
  /\ writes = 0
  /\ \A c \in ProbeCodes :
       /\ getCodeInfo(c) = Return(FirstCodeInfo(c))
       /\ getDisputeInfo(c) = Return(FirstDisputeInfo(c))

\* The caller overwrote the status of the record getCodeInfo("u3")
\* returned, and a new lookup of u3 still reports Rejected.
C16_Witness ==
  /\ pc = "returned"
  /\ call.op = "getCodeInfo"
  /\ call.code = "u3"
  /\ outcome.kind = "mutated"
  /\ outcome.value.status = "Tampered"
  /\ getCodeInfo("u3").value.status = "Rejected"

\* C17: for every key c of the dispute table, getDisputeInfo(c) has
\* disputeType "Chargeback" and a flag equal to the code c itself.
C17_ChargebackAndFlagEcho ==
  /\ (Returned("getDisputeInfo")
        /\ toUpperCase(call.code) \in DOMAIN DisputeReasonCodes)
       => /\ outcome.kind = "return"
          /\ outcome.value.disputeType = "Chargeback"
          /\ outcome.value.flag = toUpperCase(call.code)
          /\ outcome.value.flag = outcome.value.code
  /\ pc = "ready"
       => \A c \in DOMAIN DisputeReasonCodes :
            /\ getDisputeInfo(c).kind = "return"
            /\ getDisputeInfo(c).value.disputeType = "Chargeback"
            /\ getDisputeInfo(c).value.flag = c

\* getDisputeInfo("U11") returned the flag U11.
C17_Witness ==
  /\ Returned("getDisputeInfo")
  /\ call.code = "U11"
  /\ outcome.kind = "return"
  /\ outcome.value.description = "Other"
  /\ outcome.value.disputeType = "Chargeback"
  /\ outcome.value.flag = "U11"

\* The suffix rules as the specification lists them, first match first.
FirstMatchSuffix(info) ==
  CASE info.status = "Pending" -> " Monitor for resolution."
    [] info.status # "Pending"
         /\ Includes(info.type, "Technical") /\ info.status = "Rejected"
         -> " Retry after a short delay."
    [] info.status # "Pending"
         /\ ~(Includes(info.type, "Technical") /\ info.status = "Rejected")
         /\ Includes(info.type, "Business")
         -> " User intervention required; do not retry automatically."
    [] OTHER -> ""

\* What the claim says handleEdgeCase(code) returns.
EdgeCaseExpected(code) ==
  LET info == getCodeInfo(code).value
  IN  [code |-> toUpperCase(code),
       suggestedAction |-> info.handling \o FirstMatchSuffix(info)]

\* C18: for every string input handleEdgeCase returns code = the
\* upper-cased input and suggestedAction = the handling text of
\* getCodeInfo(input) followed by at most one suffix, chosen by first
\* match: Pending, monitor; type containing "Technical" and Rejected,
\* retry; type containing "Business", user intervention; otherwise none.
\* Over the tables a code of type exactly "Business" gets the
\* user-intervention suffix, a code of status Success gets no suffix, and
\* an unknown code gets "Contact support" plus the retry suffix.
C18_EdgeCaseAdvice ==
  /\ Returned("handleEdgeCase")
       => LET info == getCodeInfo(call.code).value
          IN  /\ outcome = Return(EdgeCaseExpected(call.code))
              /\ info.type = "Business"
                   => outcome.value.suggestedAction =
                        info.handling
                          \o " User intervention required; do not retry automatically."
              /\ info.status = "Processed"
                   => outcome.value.suggestedAction = info.handling
              /\ toUpperCase(call.code) \notin ErrorKeys
                   => outcome.value.suggestedAction =
                        "Contact support Retry after a short delay."
  /\ pc = "ready"
       => \A k \in ErrorKeys :
            LET info == getCodeInfo(k).value
                action == handleEdgeCase(k).value.suggestedAction
            IN  /\ handleEdgeCase(k) = Return(EdgeCaseExpected(k))
                /\ info.type = "Business"
                     => action =
                          info.handling
                            \o " User intervention required; do not retry automatically."
                /\ info.status = "Processed" => action = info.handling

\* handleEdgeCase("am"), a Business code given in lower case, returned
\* the code AM and the user-intervention suffix.
C18_Witness ==
  /\ Returned("handleEdgeCase")
  /\ call.code = "am"
  /\ getCodeInfo("am").value.type = "Business"
  /\ outcome.kind = "return"
  /\ outcome.value.code = "AM"
  /\ outcome.value.suggestedAction =
       getCodeInfo("am").value.handling
         \o " User intervention required; do not retry automatically."

\* C19: the key sets of the general-error table and of the mandate-error
\* table are disjoint, so the merged object of getCodeInfo, in which a
\* mandate entry would overwrite a general entry of the same key, gives
\* for every input the record of the general-first ordered lookup, and
\* every general-error key resolves to its general-error entry.
C19_DisjointKeySets ==
  /\ DOMAIN UPIErrorCodes \cap DOMAIN MandateErrorCodes = {}
  /\ Returned("getCodeInfo")
       => /\ outcome = Return(OrderedLookup(call.code))
          /\ toUpperCase(call.code) \in DOMAIN UPIErrorCodes
               => outcome.value =
                    EntryRecord(toUpperCase(call.code),
                                UPIErrorCodes[toUpperCase(call.code)])
  /\ pc = "ready"
       => /\ Spread(UPIErrorCodes, MandateErrorCodes)
               = Spread(MandateErrorCodes, UPIErrorCodes)
          /\ \A k \in DOMAIN UPIErrorCodes :
               /\ Spread(UPIErrorCodes, MandateErrorCodes)[k]
                    = UPIErrorCodes[k]
               /\ getCodeInfo(k) = Return(EntryRecord(k, UPIErrorCodes[k]))

\* getCodeInfo("125") resolved a general-error key, absent from the
\* mandate-error table, to its general-error entry.
C19_Witness ==
  /\ Returned("getCodeInfo")
  /\ call.code = "125"
  /\ "125" \in DOMAIN UPIErrorCodes
  /\ "125" \notin DOMAIN MandateErrorCodes
  /\ outcome.kind = "return"
  /\ outcome.value.description = "Transaction limit crossed"

====
